---- MODULE Spec2Model ----
(***************************************************************************)
(* Model of src/util.js: the quoted-argument tokenizer parseArgs (with     *)
(* skipWhitespace), the quote stripper unquote, and the streaming          *)
(* multipart encoder writeFormData.                                        *)
(*                                                                         *)
(* A JavaScript string is a sequence of one-character strings.  Indices    *)
(* into strings are 0-based as in the source; charAt(s, k) is s[k+1].      *)
(***************************************************************************)
EXTENDS Integers, Sequences, FiniteSets, TLC

VARIABLES
    call,        \* which function of util.js this behaviour runs
    \* ---- parseArgs(s): argument and locals
    s, i, startQuote, curToken, args, outcome,
    \* ---- parseArgs history variables (where each pushed token came from)
    curSrc, argsSrc, argsQuoted,
    \* ---- unquote(s): argument and result
    uIn, uOut,
    \* ---- writeFormData(httpReq, data): argument, position in the code, locals
    data, pc, boundStr, buf, keyIdx, fd, bufSize, nread, error,
    \* ---- httpReq: the Content-Type header set, the chunks received through
    \* write and end, the number of end calls
    contentType, sink, ended,
    \* ---- fs: the handles that are open, the next handle, the file position
    openFds, nextFd, filePos,
    \* ---- history: the buffer offset and the length of the last fs.readSync
    \* on the open file (empty before the first)
    lastRead

parseVars == <<s, i, startQuote, curToken, args, outcome, curSrc, argsSrc, argsQuoted>>
unquoteVars == <<uIn, uOut>>
formVars == <<data, pc, boundStr, buf, keyIdx, fd, bufSize, nread, error,
              contentType, sink, ended, openFds, nextFd, filePos, lastRead>>
vars == <<call, parseVars, unquoteVars, formVars>>

----------------------------------------------------------------------------
(* Bounds of the model *)

\* longest input string given to parseArgs
MaxLen == 4
\* longest input string given to unquote
MaxUnqLen == 4
\* largest number of fields of the mapping given to writeFormData
MaxFields == 2
\* capacity of the read buffer, `var bufCap = 1<<16` (line 211), scaled down
bufCap == 2

----------------------------------------------------------------------------
(* Characters and strings *)

DQ == "\""
SQ == "'"
\* the characters inputs are drawn from: the two delimiters of parseArgs,
\* two further white-space characters, both quote characters, two others
Alphabet == {" ", "\t", "\n", "\r", DQ, SQ, "a", "b"}

\* value of a variable holding null (startQuote) / no value yet
Null == "null"

Strings(A, n) == UNION {[1..k -> A] : k \in 0..n}

\* s.charAt(k)
charAt(str, k) == str[k + 1]

\* s.substring(from, to), 0 <= from <= to <= s.length
substring(str, from, to) == SubSeq(str, from + 1, to)

\* white space as String.prototype.trim understands it (restricted to Alphabet)
IsTrimSpace(c) == c \in {" ", "\t", "\n", "\r"}

\* number of characters trim removes at the front / at the back
RECURSIVE LeadSpaces(_)
LeadSpaces(str) ==
    IF str = <<>> \/ ~IsTrimSpace(Head(str)) THEN 0
    ELSE 1 + LeadSpaces(Tail(str))

RECURSIVE TrailSpaces(_)
TrailSpaces(str) ==
    IF str = <<>> \/ ~IsTrimSpace(str[Len(str)]) THEN 0
    ELSE 1 + TrailSpaces(SubSeq(str, 1, Len(str) - 1))

\* what trim keeps of a sequence aligned with string str (str itself, or the
\* positions its characters were read from)
TrimLike(str, seq) ==
    IF LeadSpaces(str) = Len(str) THEN <<>>
    ELSE SubSeq(seq, LeadSpaces(str) + 1, Len(str) - TrailSpaces(str))

\* str.trim()
trim(str) == TrimLike(str, str)

----------------------------------------------------------------------------
(* skipWhitespace(s, startIdx) *)

\* variant of skipWhitespace: a tab is not skipped
RECURSIVE skipSpacesOnly(_, _)
skipSpacesOnly(str, startIdx) ==
    IF startIdx >= Len(str) THEN -1
    ELSE IF charAt(str, startIdx) # " " THEN startIdx
    ELSE skipSpacesOnly(str, startIdx + 1)

RECURSIVE skipWhitespace(_, _)
skipWhitespace(str, startIdx) ==
    IF startIdx >= Len(str) THEN -1
    ELSE IF charAt(str, startIdx) # " " /\ charAt(str, startIdx) # "\t" THEN startIdx
    ELSE skipWhitespace(str, startIdx + 1)

----------------------------------------------------------------------------
(* parseArgs(s): the locals as a record, one operator per branch of the loop *)

\* state on entry, after `var i = skipWhitespace(s, 0); if (i < 0) return args;`
parseArgsEntry(str) ==
    LET k == skipWhitespace(str, 0) IN
    [i |-> k, startQuote |-> Null, curToken |-> <<>>, args |-> <<>>,
     outcome |-> IF k < 0 THEN "returned" ELSE "running",
     curSrc |-> <<>>, argsSrc |-> <<>>, argsQuoted |-> <<>>]

\* the loop condition `i < s.length`
InLoop(str, p) == p.outcome = "running" /\ p.i < Len(str)

\* variant of AtClosingQuote: either quote character closes a quoted run
AtClosingQuoteAny(str, p) ==
    InLoop(str, p) /\ p.startQuote # Null /\ charAt(str, p.i) \in {DQ, SQ}

\* `if (startQuote)` and `cur === startQuote`
AtClosingQuote(str, p) ==
    InLoop(str, p) /\ p.startQuote # Null /\ charAt(str, p.i) = p.startQuote
AtQuotedChar(str, p) ==
    InLoop(str, p) /\ p.startQuote # Null /\ charAt(str, p.i) # p.startQuote
\* `cur == '"' || cur == "'"`
AtOpeningQuote(str, p) ==
    InLoop(str, p) /\ p.startQuote = Null /\ charAt(str, p.i) \in {DQ, SQ}
\* variant of AtDelimiter: a line feed is a delimiter too
AtDelimiterOrLineFeed(str, p) ==
    InLoop(str, p) /\ p.startQuote = Null /\ charAt(str, p.i) \in {" ", "\t", "\n"}

\* `cur == ' ' || cur == "\t"`
AtDelimiter(str, p) ==
    InLoop(str, p) /\ p.startQuote = Null /\ charAt(str, p.i) \in {" ", "\t"}
AtPlainChar(str, p) ==
    InLoop(str, p) /\ p.startQuote = Null /\ charAt(str, p.i) \notin {DQ, SQ, " ", "\t"}
AtEnd(str, p) == p.outcome = "running" /\ p.i >= Len(str)

\* args.push(curToken.trim()); curToken = ''; then skip white space from i+1
PushAndSkip(str, p, quoted) ==
    LET k == skipWhitespace(str, p.i + 1) IN
    [p EXCEPT !.args = Append(@, trim(p.curToken)),
              !.argsSrc = Append(@, TrimLike(p.curToken, p.curSrc)),
              !.argsQuoted = Append(@, quoted),
              !.curToken = <<>>, !.curSrc = <<>>,
              !.i = k,
              !.outcome = IF k < 0 THEN "returned" ELSE "running"]

\* variant of closeQuote: the white space after the closing quote is not skipped
closeQuoteNoSkip(str, p) ==
    [p EXCEPT !.args = Append(@, trim(p.curToken)),
              !.argsSrc = Append(@, TrimLike(p.curToken, p.curSrc)),
              !.argsQuoted = Append(@, TRUE),
              !.curToken = <<>>, !.curSrc = <<>>,
              !.startQuote = Null,
              !.i = @ + 1]

\* variant of closeQuote: the index stays on the closing quote
closeQuoteStay(str, p) ==
    [p EXCEPT !.args = Append(@, trim(p.curToken)),
              !.argsSrc = Append(@, TrimLike(p.curToken, p.curSrc)),
              !.argsQuoted = Append(@, TRUE),
              !.curToken = <<>>, !.curSrc = <<>>,
              !.startQuote = Null]

\* lines 340-347: the closing quote
closeQuote(str, p) == [PushAndSkip(str, p, TRUE) EXCEPT !.startQuote = Null]

\* lines 348-352 and 376-380: curToken += cur; i++
appendChar(str, p) ==
    [p EXCEPT !.curToken = Append(@, charAt(str, p.i)),
              !.curSrc = Append(@, p.i),
              !.i = @ + 1]

\* variant of openQuote: the text accumulated before the quote is not flushed
openQuoteNoFlush(str, p) ==
    [p EXCEPT !.startQuote = charAt(str, p.i), !.i = @ + 1]

\* lines 356-368: an opening quote outside quotes
openQuote(str, p) ==
    LET t == trim(p.curToken) IN
    [p EXCEPT !.args = IF t # <<>> THEN Append(@, t) ELSE @,
              !.argsSrc = IF t # <<>> THEN Append(@, TrimLike(p.curToken, p.curSrc)) ELSE @,
              !.argsQuoted = IF t # <<>> THEN Append(@, FALSE) ELSE @,
              !.curToken = <<>>, !.curSrc = <<>>,
              !.startQuote = charAt(str, p.i),
              !.i = @ + 1]

\* lines 369-375: a space or tab outside quotes
endToken(str, p) == PushAndSkip(str, p, FALSE)

\* variant of finish: an open quote at the end of the input is not an error
finishNoThrow(str, p) ==
    [p EXCEPT !.args = IF p.curToken # <<>> THEN Append(@, trim(p.curToken)) ELSE @,
              !.argsSrc = IF p.curToken # <<>>
                          THEN Append(@, TrimLike(p.curToken, p.curSrc)) ELSE @,
              !.argsQuoted = IF p.curToken # <<>> THEN Append(@, p.startQuote # Null) ELSE @,
              !.outcome = "returned"]

\* lines 384-390: after the loop
finish(str, p) ==
    IF p.startQuote # Null THEN [p EXCEPT !.outcome = "UnmatchedQuote"]
    ELSE [p EXCEPT !.args = IF p.curToken # <<>> THEN Append(@, trim(p.curToken)) ELSE @,
                   !.argsSrc = IF p.curToken # <<>>
                               THEN Append(@, TrimLike(p.curToken, p.curSrc)) ELSE @,
                   !.argsQuoted = IF p.curToken # <<>> THEN Append(@, FALSE) ELSE @,
                   !.outcome = "returned"]

\* one iteration of the loop, or the code after it
parseArgsStep(str, p) ==
    IF AtClosingQuote(str, p) THEN closeQuote(str, p)
    ELSE IF AtQuotedChar(str, p) THEN appendChar(str, p)
    ELSE IF AtOpeningQuote(str, p) THEN openQuote(str, p)
    ELSE IF AtDelimiter(str, p) THEN endToken(str, p)
    ELSE IF AtPlainChar(str, p) THEN appendChar(str, p)
    ELSE finish(str, p)

RECURSIVE parseArgsRun(_, _)
parseArgsRun(str, p) ==
    IF p.outcome # "running" THEN p ELSE parseArgsRun(str, parseArgsStep(str, p))

\* the call as a whole: its outcome ("returned" or "UnmatchedQuote") and args
parseArgs(str) == parseArgsRun(str, parseArgsEntry(str))

----------------------------------------------------------------------------
(* parseArgs as a state machine over its locals *)

Locals ==
    [i |-> i, startQuote |-> startQuote, curToken |-> curToken, args |-> args,
     outcome |-> outcome, curSrc |-> curSrc, argsSrc |-> argsSrc,
     argsQuoted |-> argsQuoted]

SetLocals(p) ==
    /\ i' = p.i
    /\ startQuote' = p.startQuote
    /\ curToken' = p.curToken
    /\ args' = p.args
    /\ outcome' = p.outcome
    /\ curSrc' = p.curSrc
    /\ argsSrc' = p.argsSrc
    /\ argsQuoted' = p.argsQuoted

ParseIdle ==
    /\ s = <<>> /\ i = 0 /\ startQuote = Null /\ curToken = <<>> /\ args = <<>>
    /\ outcome = "idle" /\ curSrc = <<>> /\ argsSrc = <<>> /\ argsQuoted = <<>>

UnquoteIdle == uIn = <<>> /\ uOut = [kind |-> "idle"]

FormIdle ==
    /\ data = <<>> /\ pc = "idle" /\ boundStr = Null /\ buf = <<>> /\ keyIdx = 0
    /\ fd = -1 /\ bufSize = 0 /\ nread = 0 /\ error = Null
    /\ contentType = <<>> /\ sink = <<>> /\ ended = 0
    /\ openFds = {} /\ nextFd = 0 /\ filePos = 0 /\ lastRead = <<>>

\* parseArgs has been called with s; i is not assigned yet (shown as 0)
InitParse ==
    /\ call = "parseArgs"
    /\ s \in Strings(Alphabet, MaxLen)
    /\ i = 0 /\ startQuote = Null /\ curToken = <<>> /\ args = <<>>
    /\ outcome = "called" /\ curSrc = <<>> /\ argsSrc = <<>> /\ argsQuoted = <<>>
    /\ UnquoteIdle
    /\ FormIdle

\* lines 326-331: the declarations, the first skipWhitespace, the early return
Enter ==
    /\ call = "parseArgs"
    /\ outcome = "called"
    /\ SetLocals(parseArgsEntry(s))
    /\ UNCHANGED <<call, s, unquoteVars, formVars>>

\* inside quotes, cur === startQuote
CloseQuote ==
    /\ call = "parseArgs"
    /\ AtClosingQuote(s, Locals)
    /\ SetLocals(closeQuote(s, Locals))
    /\ UNCHANGED <<call, s, unquoteVars, formVars>>

\* inside quotes, any other character
AppendQuoted ==
    /\ call = "parseArgs"
    /\ AtQuotedChar(s, Locals)
    /\ SetLocals(appendChar(s, Locals))
    /\ UNCHANGED <<call, s, unquoteVars, formVars>>

\* outside quotes, a quote character
OpenQuote ==
    /\ call = "parseArgs"
    /\ AtOpeningQuote(s, Locals)
    /\ SetLocals(openQuote(s, Locals))
    /\ UNCHANGED <<call, s, unquoteVars, formVars>>

\* outside quotes, a space or a tab
EndToken ==
    /\ call = "parseArgs"
    /\ AtDelimiter(s, Locals)
    /\ SetLocals(endToken(s, Locals))
    /\ UNCHANGED <<call, s, unquoteVars, formVars>>

\* outside quotes, any other character
AppendPlain ==
    /\ call = "parseArgs"
    /\ AtPlainChar(s, Locals)
    /\ SetLocals(appendChar(s, Locals))
    /\ UNCHANGED <<call, s, unquoteVars, formVars>>

\* the loop has ended: throw UnmatchedQuote or return args
Finish ==
    /\ call = "parseArgs"
    /\ AtEnd(s, Locals)
    /\ SetLocals(finish(s, Locals))
    /\ UNCHANGED <<call, s, unquoteVars, formVars>>

NextParse == Enter \/ CloseQuote \/ AppendQuoted \/ OpenQuote \/ EndToken \/ AppendPlain \/ Finish

----------------------------------------------------------------------------
(* unquote(s) *)

\* the number 0 that `end` holds when s has a single character; it equals no
\* character
NumberZero == "number 0"

\* variant of unquote: a string is looked at for quotes only from length 2 on
unquoteFromLength2(str) ==
    LET t == trim(str) IN
    IF Len(t) >= 2
    THEN LET start == charAt(t, 0)
             end == charAt(t, Len(t) - 1)
             isQuote == start = DQ \/ start = SQ \/ end = DQ \/ end = SQ
         IN  IF isQuote
             THEN IF start = end
                  THEN [kind |-> "returned", val |-> substring(t, 1, Len(t) - 1)]
                  ELSE [kind |-> "threw", message |-> "mismatched quote chars"]
             ELSE [kind |-> "returned", val |-> t]
    ELSE [kind |-> "returned", val |-> t]

\* variant of unquote: the two ends are not compared
unquoteNoCompare(str) ==
    LET t == trim(str) IN
    IF Len(t) >= 1
    THEN LET start == charAt(t, 0)
             end == IF Len(t) >= 2 THEN charAt(t, Len(t) - 1) ELSE NumberZero
             isQuote == start = DQ \/ start = SQ \/ end = DQ \/ end = SQ
         IN  IF isQuote
             THEN [kind |-> "returned", val |-> substring(t, 1, Len(t) - 1)]
             ELSE [kind |-> "returned", val |-> t]
    ELSE [kind |-> "returned", val |-> t]

unquote(str) ==
    LET t == trim(str) IN
    IF Len(t) >= 1
    THEN LET start == charAt(t, 0)
             end == IF Len(t) >= 2 THEN charAt(t, Len(t) - 1) ELSE NumberZero
             isQuote == start = DQ \/ start = SQ \/ end = DQ \/ end = SQ
         IN  IF isQuote
             THEN IF start = end
                  THEN [kind |-> "returned", val |-> substring(t, 1, Len(t) - 1)]
                  ELSE [kind |-> "threw", message |-> "mismatched quote chars"]
             ELSE [kind |-> "returned", val |-> t]
    ELSE [kind |-> "returned", val |-> t]

InitUnquote ==
    /\ call = "unquote"
    /\ uIn \in Strings(Alphabet, MaxUnqLen)
    /\ uOut = [kind |-> "pending"]
    /\ ParseIdle
    /\ FormIdle

\* the call unquote(uIn)
Unquote ==
    /\ call = "unquote"
    /\ uOut.kind = "pending"
    /\ uOut' = unquote(uIn)
    /\ UNCHANGED <<call, uIn, parseVars, formVars>>

NextUnquote == Unquote

----------------------------------------------------------------------------
(* writeFormData(httpReq, data): values, files, the chunks written *)

\* the property names data is given: two integer-like names and one other
Keys == {"a", "1", "2"}
IndexKeys == <<"1", "2">>

\* a path that cannot be opened, and a file of n bytes for n = 0, one less
\* than the buffer, the buffer, one more, and two buffers
Missing == "/missing"
FileSizes == {0, bufCap - 1, bufCap, bufCap + 1, 2 * bufCap}
FilePath(n) == "/f" \o ToString(n)
FilePaths == {FilePath(n) : n \in FileSizes}
FileSize(path) == CHOOSE n \in FileSizes : FilePath(n) = path
\* the byte at offset j-1 of a file is j: every offset has its own value
FileBytes(path) == [j \in 1..FileSize(path) |-> j]

\* a value of data: its type, its string form String(val), its filePath
\* property (Null when the value has none)
Value(type, text, path) == [type |-> type, text |-> text, filePath |-> path]
Scalars ==
    { Value("string", "x", Null), Value("number", "5", Null),
      Value("undefined", "undefined", Null), Value("null", "null", Null),
      Value("object", "[object Object]", Null),
      Value("object", "[object Object]", "") }
FileValues == {Value("object", "[object Object]", path) : path \in FilePaths \cup {Missing}}
Values == Scalars \cup FileValues

\* `typeof val`
typeof(val) == IF val.type = "null" THEN "object" ELSE val.type
\* `typeof val === 'object' && val.filePath` (line 220), for a val that is not null
IsFileUpload(val) == typeof(val) = "object" /\ val.filePath \notin {Null, ""}

\* the mappings: up to MaxFields properties with distinct names, in the
\* order they were added
Mappings ==
    UNION { {d \in [1..n -> [key : Keys, val : Values]] :
                \A a, b \in 1..n : a # b => d[a].key # d[b].key} : n \in 0..MaxFields }

\* `for (var key in data)`: integer-like names in ascending order first,
\* then the other names in the order they were added
IsIndexKey(key) == \E j \in 1..Len(IndexKeys) : IndexKeys[j] = key
HasKey(d, key) == \E j \in 1..Len(d) : d[j].key = key
ForInOrder(d) ==
    LET present(key) == HasKey(d, key)
        other(f) == ~IsIndexKey(f.key)
        names == [j \in 1..Len(SelectSeq(d, other)) |-> SelectSeq(d, other)[j].key]
    IN  SelectSeq(IndexKeys, present) \o names
\* data[key]
Lookup(d, key) == (CHOOSE j \in 1..Len(d) : d[j].key = key)

\* the values crypto.pseudoRandomBytes(16), hex-encoded, is drawn from
Boundaries == {"00112233445566778899aabbccddeeff", "0f1e2d3c4b5a69788796a5b4c3d2e1f0"}

\* an unwritten cell of `new Buffer(bufCap)`: no byte of any file
Garbage == 0

\* what httpReq receives through write or end: a string (the strings
\* concatenated into it) with its encoding argument, or the bytes a Buffer
\* holds at the time of the call
TextChunk(via, enc, text) == [via |-> via, enc |-> enc, text |-> text, bytes |-> <<>>]
ByteChunk(via, bytes) == [via |-> via, enc |-> "buffer", text |-> <<>>, bytes |-> bytes]

\* the pieces the written strings are made of
CRLF == "\r\n"
DispositionName == "Content-Disposition: form-data; name=\""
FilenameAttr == "\"; filename=\""
Quote == "\""
ContentType == "Content-Type: application/octet-stream"
TransferEncoding == "Content-Transfer-Encoding: binary"

\* '--'+boundStr (line 217)
partDelimiter(b) == <<"--", b>>
\* variant of fileHeaders: the Content-Type line is left out
fileHeadersNoType(key, path) ==
    <<CRLF, DispositionName, key, FilenameAttr, path, Quote, CRLF,
      TransferEncoding, CRLF, CRLF>>

\* the header block of a file part (lines 222-225)
fileHeaders(key, path) ==
    <<CRLF, DispositionName, key, FilenameAttr, path, Quote, CRLF,
      ContentType, CRLF,
      TransferEncoding, CRLF, CRLF>>
\* the header block of a scalar part (line 256)
scalarHeaders(key) == <<CRLF, DispositionName, key, Quote, CRLF, CRLF>>
\* val+"\r\n" (line 257)
scalarBody(val) == <<val.text, CRLF>>
\* variant of closingDelimiter: the part delimiter is sent at the end
closingAsPartDelimiter(b) == <<"--", b, CRLF>>

\* '--'+boundStr+"--\r\n" (line 261)
closingDelimiter(b) == <<"--", b, "--", CRLF>>

\* variant of slice: the whole buffer
sliceWhole(buffer, from, to) == buffer

\* buf.slice(from, to)
slice(buffer, from, to) == SubSeq(buffer, from + 1, to)

\* the buffer after fs.readSync(fd, buf, offset, length, null) has read n
\* bytes at file position pos
readInto(buffer, offset, n, content, pos) ==
    [j \in 1..Len(buffer) |->
        IF offset < j /\ j <= offset + n THEN content[pos + (j - offset)] ELSE buffer[j]]

Min(a, b) == IF a <= b THEN a ELSE b

\* the counts a read of `length` bytes at file position pos may return: 0 at
\* the end of the file or when no byte is asked for, else any count from 1
\* up to what is asked and left
ReadCounts(length, size, pos) ==
    IF size - pos = 0 \/ length = 0 THEN {0} ELSE 1..Min(length, size - pos)

----------------------------------------------------------------------------
(* writeFormData as a state machine *)

keyOrder == ForInOrder(data)
curKey == keyOrder[keyIdx]
curVal == data[Lookup(data, curKey)].val

InitForm ==
    /\ call = "writeFormData"
    /\ data \in Mappings
    /\ pc = "called" /\ boundStr = Null /\ buf = <<>> /\ keyIdx = 0
    /\ fd = -1 /\ bufSize = 0 /\ nread = 0 /\ error = Null
    /\ contentType = <<>> /\ sink = <<>> /\ ended = 0
    /\ openFds = {} /\ nextFd = 3 /\ filePos = 0 /\ lastRead = <<>>
    /\ ParseIdle
    /\ UnquoteIdle

FormStep == call = "writeFormData" /\ UNCHANGED <<call, data, parseVars, unquoteVars>>

\* lines 205-212: the boundary, the Content-Type header, the buffer
Begin ==
    /\ FormStep /\ pc = "called"
    /\ boundStr' \in Boundaries
    /\ contentType' = <<"multipart/form-data; boundary=", boundStr'>>
    /\ buf' = [j \in 1..bufCap |-> Garbage]
    /\ pc' = "for"
    /\ UNCHANGED <<keyIdx, fd, bufSize, nread, error, sink, ended, openFds, nextFd, filePos>>
    /\ UNCHANGED lastRead

\* lines 214-217: the next property of data, and its part delimiter
WriteDelimiter ==
    /\ FormStep /\ pc = "for" /\ keyIdx < Len(keyOrder)
    /\ keyIdx' = keyIdx + 1
    /\ sink' = Append(sink, TextChunk("write", "ascii", partDelimiter(boundStr)))
    /\ pc' = "field"
    /\ UNCHANGED <<boundStr, buf, fd, bufSize, nread, error, contentType, ended,
                   openFds, nextFd, filePos>>
    /\ UNCHANGED lastRead

\* line 220 with val === null: `val.filePath` throws a TypeError
NullValue ==
    /\ FormStep /\ pc = "field" /\ curVal.type = "null"
    /\ pc' = "threw" /\ error' = "TypeError"
    /\ UNCHANGED <<boundStr, buf, keyIdx, fd, bufSize, nread, contentType, sink, ended,
                   openFds, nextFd, filePos>>
    /\ UNCHANGED lastRead

\* lines 220-225: a file upload, its headers
WriteFileHeaders ==
    /\ FormStep /\ pc = "field" /\ curVal.type # "null" /\ IsFileUpload(curVal)
    /\ sink' = Append(sink, TextChunk("write", "utf8", fileHeaders(curKey, curVal.filePath)))
    /\ pc' = "open"
    /\ UNCHANGED <<boundStr, buf, keyIdx, fd, bufSize, nread, error, contentType, ended,
                   openFds, nextFd, filePos>>
    /\ UNCHANGED lastRead

\* lines 227-228: fs.openSync succeeds
OpenFile ==
    /\ FormStep /\ pc = "open" /\ curVal.filePath \in FilePaths
    /\ fd' = nextFd /\ nextFd' = nextFd + 1
    /\ openFds' = openFds \cup {nextFd}
    /\ filePos' = 0
    /\ bufSize' = 0
    /\ lastRead' = <<>>
    /\ pc' = "read"
    /\ UNCHANGED <<boundStr, buf, keyIdx, nread, error, contentType, sink, ended>>

\* variant of OpenFails: the error is caught and the loop goes on
OpenFailsSwallowed ==
    /\ FormStep /\ pc = "open" /\ curVal.filePath \notin FilePaths
    /\ pc' = "for" /\ error' = "ENOENT"
    /\ UNCHANGED <<boundStr, buf, keyIdx, fd, bufSize, nread, contentType, sink, ended,
                   openFds, nextFd, filePos>>
    /\ UNCHANGED lastRead

\* line 227: fs.openSync throws
OpenFails ==
    /\ FormStep /\ pc = "open" /\ curVal.filePath \notin FilePaths
    /\ pc' = "threw" /\ error' = "ENOENT"
    /\ UNCHANGED <<boundStr, buf, keyIdx, fd, bufSize, nread, contentType, sink, ended,
                   openFds, nextFd, filePos>>
    /\ UNCHANGED lastRead

\* variant of Read: the inner loop does not test whether the buffer is full
ReadWhenFull ==
    /\ FormStep /\ pc = "read"
    /\ \E n \in ReadCounts(bufCap - bufSize, FileSize(curVal.filePath), filePos) :
        /\ nread' = n
        /\ lastRead' = <<bufSize, bufCap - bufSize>>
        /\ buf' = readInto(buf, bufSize, n, FileBytes(curVal.filePath), filePos)
        /\ filePos' = filePos + n
        /\ bufSize' = IF n = 0 THEN bufSize ELSE bufSize + n
        /\ pc' = IF n = 0 THEN "flush" ELSE "read"
    /\ UNCHANGED <<boundStr, keyIdx, fd, error, contentType, sink, ended, openFds, nextFd>>

\* lines 233-238: one fs.readSync of the inner loop, which goes on while
\* the read returned bytes and the buffer is not full
Read ==
    /\ FormStep /\ pc = "read" /\ bufSize < bufCap
    /\ \E n \in ReadCounts(bufCap - bufSize, FileSize(curVal.filePath), filePos) :
        /\ nread' = n
        /\ lastRead' = <<bufSize, bufCap - bufSize>>
        /\ buf' = readInto(buf, bufSize, n, FileBytes(curVal.filePath), filePos)
        /\ filePos' = filePos + n
        /\ bufSize' = IF n = 0 THEN bufSize ELSE bufSize + n
        /\ pc' = IF n = 0 \/ bufSize + n >= bufCap THEN "flush" ELSE "read"
    /\ UNCHANGED <<boundStr, keyIdx, fd, error, contentType, sink, ended, openFds, nextFd>>

\* line 235: fs.readSync throws
ReadFails ==
    /\ FormStep /\ pc = "read" /\ bufSize < bufCap
    /\ pc' = "threw" /\ error' = "EIO"
    /\ UNCHANGED <<boundStr, buf, keyIdx, fd, bufSize, nread, contentType, sink, ended,
                   openFds, nextFd, filePos>>
    /\ UNCHANGED lastRead

\* variant of FlushFull: bufSize is not set back to 0
FlushFullNoReset ==
    /\ FormStep /\ pc = "flush" /\ bufSize = bufCap
    /\ sink' = Append(sink, ByteChunk("write", buf))
    /\ pc' = "read"
    /\ UNCHANGED <<boundStr, buf, keyIdx, fd, bufSize, nread, error, contentType, ended,
                   openFds, nextFd, filePos>>
    /\ UNCHANGED lastRead

\* lines 240-245: the buffer is full
FlushFull ==
    /\ FormStep /\ pc = "flush" /\ bufSize = bufCap
    /\ bufSize' = 0
    /\ sink' = Append(sink, ByteChunk("write", buf))
    /\ pc' = "read"
    /\ UNCHANGED <<boundStr, buf, keyIdx, fd, nread, error, contentType, ended,
                   openFds, nextFd, filePos>>
    /\ UNCHANGED lastRead

\* lines 247-248: the end of the file
FlushRest ==
    /\ FormStep /\ pc = "flush" /\ bufSize # bufCap
    /\ sink' = Append(sink, ByteChunk("write", slice(buf, 0, bufSize)))
    /\ pc' = "close"
    /\ UNCHANGED <<boundStr, buf, keyIdx, fd, bufSize, nread, error, contentType, ended,
                   openFds, nextFd, filePos>>
    /\ UNCHANGED lastRead

\* lines 251-252: fs.closeSync and the line break after the body
CloseFile ==
    /\ FormStep /\ pc = "close"
    /\ openFds' = openFds \ {fd}
    /\ sink' = Append(sink, TextChunk("write", "ascii", <<CRLF>>))
    /\ pc' = "for"
    /\ UNCHANGED <<boundStr, buf, keyIdx, fd, bufSize, nread, error, contentType, ended,
                   nextFd, filePos>>
    /\ UNCHANGED lastRead

\* lines 254-258: any other value, its headers and its string form
WriteScalar ==
    /\ FormStep /\ pc = "field" /\ curVal.type # "null" /\ ~IsFileUpload(curVal)
    /\ sink' = sink \o <<TextChunk("write", "utf8", scalarHeaders(curKey)),
                         TextChunk("write", "utf8", scalarBody(curVal))>>
    /\ pc' = "for"
    /\ UNCHANGED <<boundStr, buf, keyIdx, fd, bufSize, nread, error, contentType, ended,
                   openFds, nextFd, filePos>>
    /\ UNCHANGED lastRead

\* line 261: httpReq.end with the closing delimiter
End ==
    /\ FormStep /\ pc = "for" /\ keyIdx >= Len(keyOrder)
    /\ sink' = Append(sink, TextChunk("end", "ascii", closingDelimiter(boundStr)))
    /\ ended' = ended + 1
    /\ pc' = "returned"
    /\ UNCHANGED <<boundStr, buf, keyIdx, fd, bufSize, nread, error, contentType,
                   openFds, nextFd, filePos>>
    /\ UNCHANGED lastRead

NextForm ==
    \/ Begin \/ WriteDelimiter \/ NullValue \/ WriteFileHeaders \/ OpenFile
    \/ OpenFails \/ Read \/ ReadFails \/ FlushFull \/ FlushRest \/ CloseFile
    \/ WriteScalar \/ End

----------------------------------------------------------------------------

\* one call of parseArgs on any input string
SpecParse == InitParse /\ [][NextParse]_vars

\* one call of unquote on any input string
SpecUnquote == InitUnquote /\ [][NextUnquote]_vars

\* one call of writeFormData on any mapping
SpecForm == InitForm /\ [][NextForm]_vars

\* one call of any of the functions
Init == InitParse \/ InitUnquote \/ InitForm
\* a call of parseArgs that is not suspended: the statement it is at is
\* executed
FairSpecParse == SpecParse /\ WF_vars(NextParse)
\* a call of writeFormData that is not suspended: fs.openSync, fs.readSync,
\* httpReq.write and the statements between them all complete
FairSpecForm == SpecForm /\ WF_vars(NextForm)
Next == NextParse \/ NextUnquote \/ NextForm
Spec == Init /\ [][Next]_vars

----------------------------------------------------------------------------
(* Reference reading of an input string, independent of parseArgs: which    *)
(* quote, if any, is open after the first k characters.                     *)

RECURSIVE OpenQuoteAfter(_, _)
OpenQuoteAfter(str, k) ==
    IF k = 0 THEN Null
    ELSE LET q == OpenQuoteAfter(str, k - 1)
             c == str[k]
         IN  IF q = Null THEN (IF c \in {DQ, SQ} THEN c ELSE Null)
             ELSE IF c = q THEN Null ELSE q

\* the character at 0-based position k opens or closes a quote
IsQuoteBoundary(str, k) ==
    OpenQuoteAfter(str, k + 1) # OpenQuoteAfter(str, k)

\* the run a 0-based position lies in: runs are separated by quote boundaries
RunOf(str, k) == Cardinality({j \in 0..k : IsQuoteBoundary(str, j)})

\* the 0-based position k lies strictly inside a quoted run
InsideQuotes(str, k) ==
    OpenQuoteAfter(str, k) # Null /\ OpenQuoteAfter(str, k + 1) # Null

IsParseCall == call = "parseArgs"
ParseDone == IsParseCall /\ outcome \in {"returned", "UnmatchedQuote"}
Positions(seq) == {seq[k] : k \in 1..Len(seq)}
Chars(str) == {str[k] : k \in 1..Len(str)}

----------------------------------------------------------------------------
(* Claims about parseArgs *)

\* C1: parseArgs throws UnmatchedQuote exactly when the end of the input is
\* reached while a quote opened by " or ' has not been closed by the same
\* character; in every other case it returns its tokens.
C1_ThrowsIffQuoteOpenAtEnd ==
    ParseDone =>
        /\ outcome \in {"returned", "UnmatchedQuote"}
        /\ outcome = "UnmatchedQuote" <=> OpenQuoteAfter(s, Len(s)) # Null
        /\ outcome = "UnmatchedQuote" => i >= Len(s)

C1_Witness ==
    /\ IsParseCall /\ outcome = "UnmatchedQuote"
    /\ Len(args) >= 1 /\ curToken # <<>>

\* C2: a quote boundary always separates tokens.  Every token consists of
\* the characters read at its recorded positions; these positions lie in one
\* run and none of them is a quote boundary; a token pushed at a closing
\* quote comes from inside the quotes and every other token from outside;
\* no character other than white space is lost or used twice (it is in one
\* token, or in the token being accumulated); 'a'b gives [a, b] and a'b'
\* gives [a, b].
C2_QuoteBoundarySeparates ==
    IsParseCall =>
        /\ Len(argsSrc) = Len(args) /\ Len(argsQuoted) = Len(args)
        /\ Len(curSrc) = Len(curToken)
        /\ \A t \in 1..Len(args) :
            /\ Len(argsSrc[t]) = Len(args[t])
            /\ \A k \in 1..Len(args[t]) : args[t][k] = charAt(s, argsSrc[t][k])
            /\ \A a, b \in Positions(argsSrc[t]) : RunOf(s, a) = RunOf(s, b)
            /\ \A a \in Positions(argsSrc[t]) :
                /\ ~IsQuoteBoundary(s, a)
                /\ argsQuoted[t] <=> InsideQuotes(s, a)
        /\ \A a, b \in Positions(curSrc) : RunOf(s, a) = RunOf(s, b)
        /\ \A k \in 0..(Len(s) - 1) :
            (ParseDone \/ (outcome = "running" /\ k < i)) /\ ~IsTrimSpace(charAt(s, k))
                                          /\ ~IsQuoteBoundary(s, k)
            => Cardinality({t \in 1..Len(args) : k \in Positions(argsSrc[t])})
                 + (IF outcome # "returned" /\ k \in Positions(curSrc) THEN 1 ELSE 0) = 1
        /\ outcome = "returned" /\ s = <<SQ, "a", SQ, "b">> => args = << <<"a">>, <<"b">> >>
        /\ outcome = "returned" /\ s = <<"a", SQ, "b", SQ>> => args = << <<"a">>, <<"b">> >>

\* a closing quote immediately followed by an unquoted token
C2_Witness ==
    /\ IsParseCall /\ outcome = "returned"
    /\ \E t \in 1..(Len(args) - 1) :
        /\ argsQuoted[t] /\ ~argsQuoted[t + 1]
        /\ args[t] # <<>> /\ args[t + 1] # <<>>
        /\ argsSrc[t + 1][1] = argsSrc[t][Len(argsSrc[t])] + 2

\* C3: every empty-string token in the result of parseArgs comes from an
\* explicitly quoted run; an unquoted run never produces an empty token.
C3_EmptyTokenOnlyFromQuotes ==
    IsParseCall => \A t \in 1..Len(args) : args[t] = <<>> => argsQuoted[t]

\* the strings of spaces and tabs put before and after an input: up to two
\* characters in all
Pads == Strings({" ", "\t"}, 2)
PadPairs == {lr \in Pads \X Pads : Len(lr[1]) + Len(lr[2]) <= 2}
IsBlank(str) == Chars(str) \subseteq {" ", "\t"}

\* C4: an input of spaces and tabs only (the empty string included) gives
\* the empty sequence, and spaces and tabs put before and after any input
\* change neither the outcome nor the tokens.
C4_BlankInputAndPadding ==
    ParseDone =>
        /\ IsBlank(s) => outcome = "returned" /\ args = <<>>
        /\ \A lr \in PadPairs :
            LET padded == parseArgs(lr[1] \o s \o lr[2])
            IN  padded.outcome = outcome /\ padded.args = args

C4_Witness ==
    /\ ParseDone /\ IsBlank(s) /\ Chars(s) = {" ", "\t"} /\ args = <<>>

\* a token wrapped in quote character q
Wrapped(q, token) == <<q>> \o token \o <<q>>
\* the quote characters that do not occur in a token
FreeQuotes(token) == {DQ, SQ} \ Chars(token)

\* every string obtained by wrapping each token in a quote character that
\* does not occur in it and joining the wrapped tokens with a single space
RECURSIVE Requoted(_)
Requoted(tokens) ==
    IF tokens = <<>> THEN {<<>>}
    ELSE IF Len(tokens) = 1 THEN {Wrapped(q, tokens[1]) : q \in FreeQuotes(tokens[1])}
    ELSE {Wrapped(q, Head(tokens)) \o <<" ">> \o rest :
            q \in FreeQuotes(Head(tokens)), rest \in Requoted(Tail(tokens))}

\* C5: re-tokenizing is stable.  When parseArgs returns tokens T, every token
\* has a quote character that does not occur in it, and parseArgs accepts
\* every re-quoted, space-joined form of T and returns T again.
C5_RetokenizingStable ==
    IsParseCall /\ outcome = "returned" =>
        /\ \A t \in 1..Len(args) : FreeQuotes(args[t]) # {}
        /\ Requoted(args) # {}
        /\ \A str \in Requoted(args) :
            LET again == parseArgs(str)
            IN  again.outcome = "returned" /\ again.args = args

\* two tokens, one of them holding a quote character
C5_Witness ==
    /\ IsParseCall /\ outcome = "returned" /\ Len(args) = 2
    /\ \E t \in 1..2 : Chars(args[t]) \cap {DQ, SQ} # {}

----------------------------------------------------------------------------
(* Claims about unquote *)

UnquoteDone == call = "unquote" /\ uOut.kind # "pending"
IsReturned(r, val) == r.kind = "returned" /\ r.val = val
IsLoneQuote(str) == trim(str) = <<DQ>> \/ trim(str) = <<SQ>>

\* C6 as stated: an input whose trimmed form is a single quote character is
\* not treated as quoted; unquote raises no error and returns that character.
C6_LoneQuotePassesThrough ==
    UnquoteDone /\ IsLoneQuote(uIn) => IsReturned(uOut, trim(uIn))

\* C6, amended: an input whose trimmed form is a single quote character is
\* treated as having an unmatched quote; unquote throws the mismatched-quote
\* error and returns nothing.
C6_LoneQuoteThrows ==
    UnquoteDone /\ IsLoneQuote(uIn) =>
        uOut.kind = "threw" /\ uOut.message = "mismatched quote chars"

C6_Witness == UnquoteDone /\ uIn = <<" ", SQ, "\t">>

----------------------------------------------------------------------------
(* Claims about writeFormData *)

IsFormCall == call = "writeFormData"
FormReturned == IsFormCall /\ pc = "returned"

\* the stream httpReq received, every byte of a Buffer shown as "<byte>"
RECURSIVE FlatText(_)
FlatText(chunks) ==
    IF chunks = <<>> THEN <<>>
    ELSE (IF Head(chunks).enc = "buffer"
          THEN [j \in 1..Len(Head(chunks).bytes) |-> "<byte>"]
          ELSE Head(chunks).text) \o FlatText(Tail(chunks))

\* the places of the stream where seq occurs
Occurrences(stream, seq) ==
    {o \in 1..(Len(stream) - Len(seq) + 1) : SubSeq(stream, o, o + Len(seq) - 1) = seq}

EndsWith(stream, seq) ==
    Len(stream) >= Len(seq)
    /\ SubSeq(stream, Len(stream) - Len(seq) + 1, Len(stream)) = seq

\* C8: in every call that completes without error, for any number of fields
\* (zero included), the closing delimiter --<boundary>--\r\n is sent exactly
\* once, it is the last of the stream, and httpReq is ended exactly once with
\* no write after it.
C8_ClosingDelimiterOnceAndLast ==
    IsFormCall =>
        /\ ended = Cardinality({c \in 1..Len(sink) : sink[c].via = "end"})
        /\ \A c \in 1..Len(sink) : sink[c].via = "end" => c = Len(sink) /\ pc = "returned"
        /\ pc = "returned" =>
            /\ boundStr \in Boundaries
            /\ ended = 1
            /\ sink[Len(sink)] = TextChunk("end", "ascii", <<"--", boundStr, "--", CRLF>>)
            /\ EndsWith(FlatText(sink), <<"--", boundStr, "--", CRLF>>)
            /\ Cardinality(Occurrences(FlatText(sink), <<"--", boundStr, "--", CRLF>>)) = 1
            /\ data = <<>> => Len(sink) = 1

\* a call with as many fields as the model allows, a file among them
C8_Witness ==
    /\ FormReturned /\ Len(data) = MaxFields
    /\ \E f \in 1..Len(data) : IsFileUpload(data[f].val)

\* the chunk is the header block of a file part
IsFileHeaders(chunk) ==
    chunk.enc # "buffer" /\ Len(chunk.text) >= 5 /\ chunk.text[4] = FilenameAttr
\* the first chunk after chunk h that is not a Buffer (Len(sink)+1 if none)
BodyEnd(h) ==
    CHOOSE e \in (h + 1)..(Len(sink) + 1) :
        /\ \A c \in (h + 1)..(e - 1) : sink[c].enc = "buffer"
        /\ e <= Len(sink) => sink[e].enc # "buffer"
\* the bytes of chunks from..to, in the order received
RECURSIVE BytesOf(_, _)
BytesOf(from, to) ==
    IF from > to THEN <<>> ELSE sink[from].bytes \o BytesOf(from + 1, to)
IsPrefix(a, b) == Len(a) <= Len(b) /\ a = SubSeq(b, 1, Len(a))

\* C9: the bytes httpReq receives between the header block of a file part
\* and the part's trailing \r\n are exactly the bytes of the file in
\* file-offset order, whatever the file size and the counts the reads return;
\* while the file is streamed they are a prefix of the file; no Buffer is
\* received anywhere else.
C9_FileBodyIsFileContent ==
    IsFormCall =>
        /\ \A h \in 1..Len(sink) : IsFileHeaders(sink[h]) =>
            LET body == BytesOf(h + 1, BodyEnd(h) - 1)
                path == sink[h].text[5]
                content == IF path \in FilePaths THEN FileBytes(path) ELSE <<>>
            IN  /\ IsPrefix(body, content)
                /\ BodyEnd(h) <= Len(sink) =>
                    /\ body = content
                    /\ sink[BodyEnd(h)] = TextChunk("write", "ascii", <<CRLF>>)
        /\ \A c \in 1..Len(sink) : sink[c].enc = "buffer" =>
            c > 1 /\ (IsFileHeaders(sink[c - 1]) \/ sink[c - 1].enc = "buffer")
        /\ pc = "returned" =>
            \A f \in 1..Len(data) : IsFileUpload(data[f].val) =>
                \E h \in 1..Len(sink) :
                    /\ IsFileHeaders(sink[h])
                    /\ sink[h].text[3] = data[f].key
                    /\ sink[h].text[5] = data[f].val.filePath

\* a file of one buffer and one byte, streamed to its end
C9_Witness ==
    /\ FormReturned
    /\ \E h \in 1..Len(sink) :
        /\ IsFileHeaders(sink[h])
        /\ sink[h].text[5] = FilePath(bufCap + 1)
        /\ BytesOf(h + 1, BodyEnd(h) - 1) = FileBytes(FilePath(bufCap + 1))

\* C10: the file handle opened for a file field is always closed: after
\* writeFormData returns or throws, no handle it opened is still open.
C10_NoHandleLeftOpen ==
    IsFormCall /\ pc \in {"returned", "threw"} => openFds = {}

\* the chunks that are strings, by their place in sink
TextPlaces == {c \in 1..Len(sink) : sink[c].enc # "buffer"}
\* the number of part delimiters written
PartsBegun ==
    Cardinality({c \in 1..Len(sink) :
                    sink[c] = TextChunk("write", "ascii", <<"--", boundStr>>)})
FileFailed == IsFormCall /\ error \in {"ENOENT", "EIO"}

\* C11: when opening or reading the file of a file field fails, the call
\* stops there: httpReq is never ended and holds no closing delimiter, no part
\* later than the failing one is begun, the last strings written are the
\* failing part's delimiter and headers, and after them only full buffers of
\* the file (none when the open failed, no remainder of a partly filled
\* buffer otherwise); the parts written before stay.
C11_FailureAbortsEncode ==
    FileFailed =>
        /\ pc = "threw"
        /\ ended = 0
        /\ \A c \in 1..Len(sink) : sink[c].via = "write"
        /\ Occurrences(FlatText(sink), <<"--", boundStr, "--">>) = {}
        /\ PartsBegun = keyIdx
        /\ IsFileUpload(curVal)
        /\ LET h == CHOOSE c \in TextPlaces : \A d \in TextPlaces : d <= c
           IN  /\ h >= 2
               /\ sink[h] = TextChunk("write", "utf8",
                     <<CRLF, DispositionName, curKey, FilenameAttr, curVal.filePath,
                       Quote, CRLF, ContentType, CRLF, TransferEncoding, CRLF, CRLF>>)
               /\ sink[h - 1] = TextChunk("write", "ascii", <<"--", boundStr>>)
               /\ \A c \in (h + 1)..Len(sink) : Len(sink[c].bytes) = bufCap
               /\ error = "ENOENT" => h = Len(sink)
               /\ error = "EIO" =>
                    IsPrefix(BytesOf(h + 1, Len(sink)), FileBytes(curVal.filePath))
        /\ keyIdx >= 2 /\ ~IsFileUpload(data[Lookup(data, keyOrder[1])].val) =>
            /\ sink[2] = TextChunk("write", "utf8",
                  <<CRLF, DispositionName, keyOrder[1], Quote, CRLF, CRLF>>)
            /\ sink[3].text[1] = data[Lookup(data, keyOrder[1])].val.text

\* a read of the second field's file fails after a full buffer was written
C11_Witness ==
    /\ FileFailed /\ error = "EIO" /\ keyIdx = 2
    /\ sink[Len(sink)].enc = "buffer" /\ bufSize > 0

\* a chunk that holds the header block of a part
IsPartHeaders(chunk) ==
    chunk.enc # "buffer" /\ Len(chunk.text) >= 3 /\ chunk.text[2] = DispositionName
\* the field names of the parts in chunks, in the order received
RECURSIVE PartKeys(_)
PartKeys(chunks) ==
    IF chunks = <<>> THEN <<>>
    ELSE (IF IsPartHeaders(Head(chunks)) THEN <<Head(chunks).text[3]>> ELSE <<>>)
         \o PartKeys(Tail(chunks))
\* the names of data in the order they were added
InsertionOrder == [j \in 1..Len(data) |-> data[j].key]

\* C12: the parts httpReq has received when writeFormData returns are
\* one per field of data, in the order the fields were added to data.
C12_PartsInInsertionOrder ==
    FormReturned => PartKeys(sink) = InsertionOrder

\* the field added to data under key
FieldOf(key) == data[CHOOSE j \in 1..Len(data) : data[j].key = key]
\* a file field: its value carries a path
IsFileField(val) == val.filePath \in FilePaths \cup {Missing}
\* the part of the multipart format for one field, with boundary b
ExpectedPart(b, key, val) ==
    IF IsFileField(val)
    THEN <<"--", b, "\r\n",
           "Content-Disposition: form-data; name=\"", key, "\"; filename=\"",
           val.filePath, "\"", "\r\n",
           "Content-Type: application/octet-stream", "\r\n",
           "Content-Transfer-Encoding: binary", "\r\n", "\r\n">>
         \o [j \in 1..FileSize(val.filePath) |-> "<byte>"] \o <<"\r\n">>
    ELSE <<"--", b, "\r\n",
           "Content-Disposition: form-data; name=\"", key, "\"", "\r\n", "\r\n",
           val.text, "\r\n">>
\* the parts of the first n fields visited
RECURSIVE ExpectedParts(_)
ExpectedParts(n) ==
    IF n = 0 THEN <<>>
    ELSE ExpectedParts(n - 1)
         \o ExpectedPart(boundStr, keyOrder[n], FieldOf(keyOrder[n]).val)

\* C13: whenever writeFormData is between two fields, and when it has
\* returned, the stream httpReq received is, field by field, --<boundary>\r\n,
\* the Content-Disposition line with the field's name, for a file field (and
\* only for one) the filename attribute and the Content-Type:
\* application/octet-stream and Content-Transfer-Encoding: binary lines, an
\* empty line, the body (for a scalar field the value's string form) and \r\n.
C13_PartFraming ==
    /\ IsFormCall /\ pc = "for" => FlatText(sink) = ExpectedParts(keyIdx)
    /\ FormReturned =>
        /\ keyIdx = Len(data)
        /\ FlatText(SubSeq(sink, 1, Len(sink) - 1)) = ExpectedParts(Len(data))

\* a call has returned after a file part with a body and a scalar part
C13_Witness ==
    /\ FormReturned /\ Len(data) = 2
    /\ \E j \in 1..2 : IsFileField(data[j].val) /\ FileSize(data[j].val.filePath) > 0
    /\ \E j \in 1..2 : ~IsFileField(data[j].val) /\ data[j].val.type = "object"

----------------------------------------------------------------------------
(* More claims about parseArgs *)

\* the 0-based positions of the quote boundaries of str, and the n-th of them
QuoteBoundaries(str) == {k \in 0..(Len(str) - 1) : IsQuoteBoundary(str, k)}
NthBoundary(str, n) ==
    CHOOSE k \in QuoteBoundaries(str) :
        Cardinality({j \in QuoteBoundaries(str) : j <= k}) = n
\* the text between the quotes of the m-th quoted run of str
QuotedText(str, m) ==
    substring(str, NthBoundary(str, 2 * m - 1) + 1, NthBoundary(str, 2 * m))
\* the tokens pushed at a closing quote, by their place in args
QuotedPlaces == {n \in 1..Len(args) : argsQuoted[n]}
\* the boundaries the scan has passed
PassedBoundaries ==
    IF outcome = "running" THEN {k \in QuoteBoundaries(s) : k < i}
    ELSE QuoteBoundaries(s)

\* C14: inside a quoted run opened by q, curToken is the whole text read
\* since the opening quote, whatever it holds (the other quote character,
\* spaces, tabs) except q, and no token is pushed before the closing q; the
\* m-th token pushed at a closing quote is the text between the quotes of the
\* m-th quoted run with the white space at its two ends removed (as trim
\* removes it) and nothing else changed.
C14_QuotedRunKeptVerbatim ==
    IsParseCall /\ outcome # "called" =>
        /\ \A n \in QuotedPlaces :
            LET m == Cardinality({j \in QuotedPlaces : j <= n}) IN
            /\ 2 * m <= Cardinality(QuoteBoundaries(s))
            /\ args[n] = trim(QuotedText(s, m))
            /\ \E lead, trail \in Strings({" ", "\t", "\n", "\r"}, MaxLen) :
                   QuotedText(s, m) = lead \o args[n] \o trail
        /\ outcome = "running" /\ startQuote # Null =>
            LET o == NthBoundary(s, Cardinality(PassedBoundaries)) IN
            /\ Cardinality(PassedBoundaries) = 2 * Cardinality(QuotedPlaces) + 1
            /\ charAt(s, o) = startQuote
            /\ curToken = substring(s, o + 1, i)
            /\ startQuote \notin Chars(curToken)
        /\ startQuote = Null =>
            Cardinality(PassedBoundaries) = 2 * Cardinality(QuotedPlaces)

\* a quoted run holding a space or tab and the other quote character has
\* been closed
C14_Witness ==
    /\ IsParseCall /\ outcome = "returned"
    /\ \E n \in QuotedPlaces :
        /\ {DQ, SQ} \cap Chars(args[n]) # {}
        /\ {" ", "\t"} \cap Chars(QuotedText(s, Cardinality({j \in QuotedPlaces : j <= n}))) # {}

\* the number of characters at the front of str that are in set
RECURSIVE LeadCount(_, _)
LeadCount(str, set) ==
    IF str = <<>> \/ Head(str) \notin set THEN 0
    ELSE 1 + LeadCount(Tail(str), set)
\* the words of str: its maximal runs of characters other than space and tab
RECURSIVE Words(_)
Words(str) ==
    LET rest == SubSeq(str, LeadCount(str, {" ", "\t"}) + 1, Len(str))
        w == LeadCount(rest, Alphabet \ {" ", "\t"})
    IN  IF rest = <<>> THEN <<>>
        ELSE <<SubSeq(rest, 1, w)>> \o Words(SubSeq(rest, w + 1, Len(rest)))
\* the places of args holding tokens that were not pushed at a closing quote
PlainPlaces == {n \in 1..Len(args) : ~argsQuoted[n]}

\* C15: outside quotes only space and tab separate tokens.  For an input
\* without quote characters the tokens are, one for one and in order, the
\* maximal runs of characters other than space and tab (trimmed), so a run
\* of spaces and tabs between two words makes one boundary and a line feed or
\* carriage return makes none.  In any input an unquoted token is read from
\* consecutive positions holding no space or tab, and a line feed or carriage
\* return between two letters outside quotes lies in one token with them.
C15_SplitsOnlyAtSpaceAndTab ==
    IsParseCall /\ outcome = "returned" =>
        /\ Chars(s) \cap {DQ, SQ} = {} =>
            /\ Len(args) = Len(Words(s))
            /\ \A n \in 1..Len(args) : args[n] = trim(Words(s)[n])
        /\ \A n \in PlainPlaces :
            /\ \A j \in 1..(Len(argsSrc[n]) - 1) : argsSrc[n][j + 1] = argsSrc[n][j] + 1
            /\ \A k \in Positions(argsSrc[n]) : charAt(s, k) \notin {" ", "\t"}
        /\ \A k \in 1..(Len(s) - 2) :
            /\ charAt(s, k) \in {"\n", "\r"}
            /\ charAt(s, k - 1) \in {"a", "b"} /\ charAt(s, k + 1) \in {"a", "b"}
            /\ OpenQuoteAfter(s, k) = Null
            => \E n \in PlainPlaces : {k - 1, k, k + 1} \subseteq Positions(argsSrc[n])

\* an input without quotes, with a space or tab, has given one token that
\* holds a line feed
C15_Witness ==
    /\ IsParseCall /\ outcome = "returned"
    /\ Chars(s) \cap {DQ, SQ} = {} /\ Chars(s) \cap {" ", "\t"} # {}
    /\ Len(args) = 1 /\ "\n" \in Chars(args[1])

----------------------------------------------------------------------------
(* Claims about the streaming loop of writeFormData *)

\* the header chunks of the file parts in sink, by their place
FileHeaderPlaces == {h \in 1..Len(sink) : IsFileHeaders(sink[h])}
\* the file a header chunk names
PathOf(h) == sink[h].text[5]
\* the loop of lines 230-249 is running for the current field
Streaming == IsFormCall /\ pc \in {"read", "flush"}
\* the writes of one file body: full buffers of capacity c, then the rest
IsChunkedBody(h, e, n, c) ==
    /\ e - h - 1 = (n \div c) + 1
    /\ \A j \in (h + 1)..(e - 2) : Len(sink[j].bytes) = c
    /\ Len(sink[e - 1].bytes) = n % c

\* C16: the body of a file of N bytes reaches httpReq as N div bufCap
\* writes of the full buffer followed by one write of the remaining
\* N mod bufCap bytes, and nothing more; while the loop runs only full
\* buffers have been written and bufSize counts the bytes read since the
\* last of them (it is 0 again when the next read is issued after a full
\* write); a file of 0 bytes gets the one write of 0 bytes.
C16_FullBuffersThenRemainder ==
    IsFormCall =>
        /\ \A h \in FileHeaderPlaces :
            h < Len(sink) /\ (BodyEnd(h) <= Len(sink) \/ pc = "close") =>
                IsChunkedBody(h, BodyEnd(h), FileSize(PathOf(h)), bufCap)
        /\ Streaming =>
            LET h == CHOOSE c \in TextPlaces : \A d \in TextPlaces : d <= c IN
            /\ IsFileHeaders(sink[h]) /\ PathOf(h) = curVal.filePath
            /\ \A j \in (h + 1)..Len(sink) : Len(sink[j].bytes) = bufCap
            /\ filePos = bufCap * (Len(sink) - h) + bufSize
            /\ pc = "read" => bufSize < bufCap
            /\ pc = "flush" => bufSize = bufCap \/ filePos = FileSize(curVal.filePath)
        /\ pc = "close" =>
            /\ bufSize = FileSize(curVal.filePath) % bufCap
            /\ filePos = FileSize(curVal.filePath)

\* a file one byte longer than the buffer has been written whole
C16_Witness ==
    /\ IsFormCall /\ pc = "close"
    /\ FileSize(curVal.filePath) = bufCap + 1
    /\ Len(sink[Len(sink)].bytes) = 1 /\ Len(sink[Len(sink) - 1].bytes) = bufCap

\* C17: a field is written as a file part exactly when its value carries a
\* path; every other value (a string, a number, null, undefined, an object
\* without a path or with the empty path) is written as a scalar part with
\* its string form and raises no error.
C17_ScalarUnlessPath ==
    IsFormCall /\ keyIdx >= 1 /\ pc \notin {"field", "returned"} =>
        LET h == CHOOSE c \in 1..Len(sink) :
                    /\ IsPartHeaders(sink[c]) \/ c = 1
                    /\ \A d \in (c + 1)..Len(sink) : ~IsPartHeaders(sink[d])
        IN  IF IsFileField(curVal)
            THEN /\ sink[h].text[3] = curKey
                 /\ IsFileHeaders(sink[h])
            ELSE /\ error = Null
                 /\ sink[h].text[3] = curKey
                 /\ ~IsFileHeaders(sink[h])
                 /\ h + 1 = Len(sink)
                 /\ sink[h + 1].text = <<curVal.text, "\r\n">>

\* the bytes of the current file from offset from (0-based), count of them
FileRange(from, count) == SubSeq(FileBytes(curVal.filePath), from + 1, from + count)

\* C18: 0 <= bufSize <= bufCap always; every readSync is issued at buffer
\* offset bufSize for bufCap - bufSize >= 1 bytes, so it stays inside the
\* buffer, and it returns 0 only at the end of the file; the bytes counted by
\* bufSize are the last bufSize bytes read from the file, and every Buffer
\* httpReq receives holds only bytes read since the write before it.
C18_FillCounterWithinBuffer ==
    IsFormCall =>
        /\ 0 <= bufSize /\ bufSize <= bufCap
        /\ lastRead # <<>> =>
            /\ lastRead[2] >= 1
            /\ lastRead[1] >= 0 /\ lastRead[1] + lastRead[2] <= bufCap
        /\ pc = "flush" /\ nread = 0 => filePos = FileSize(curVal.filePath)
        /\ Streaming \/ pc = "close" =>
            /\ Len(buf) = bufCap
            /\ bufSize <= filePos
            /\ SubSeq(buf, 1, bufSize) = FileRange(filePos - bufSize, bufSize)
        /\ pc = "close" => sink[Len(sink)].bytes = SubSeq(buf, 1, bufSize)
        /\ \A c \in 1..Len(sink) :
            sink[c].enc = "buffer" => Garbage \notin Positions(sink[c].bytes)

\* the buffer is half full and a read for the other half has returned
C18_Witness ==
    /\ Streaming /\ lastRead = <<1, bufCap - 1>> /\ nread = 1 /\ bufSize = bufCap
    /\ filePos > bufCap

----------------------------------------------------------------------------
(* Termination *)

\* C19: parseArgs terminates.  Every iteration of its loop, inside quotes
\* or outside, either moves the scan index i strictly forward or ends the
\* scan, and every call ends by returning args or by throwing UnmatchedQuote.
C19_ParseArgsTerminates ==
    /\ [][IsParseCall /\ outcome = "running" =>
            (outcome' = "running" /\ i' > i /\ i' <= Len(s))
            \/ outcome' \in {"returned", "UnmatchedQuote"}]_vars
    /\ <>ParseDone

\* a call over an input of full length has returned after scanning a quoted
\* and an unquoted token
C19_Witness ==
    /\ IsParseCall /\ outcome = "returned" /\ Len(s) = MaxLen
    /\ QuotedPlaces # {} /\ PlainPlaces # {}

\* openSync or readSync has failed
FileError == error \in {"ENOENT", "EIO"}

\* the loop of lines 230-249, once entered, is left (to closeSync, or by the
\* error readSync throws), and every call ends: by httpReq.end or by an error
StreamingEndsOrThrows ==
    /\ [](IsFormCall /\ pc = "read" => <>(pc = "close" \/ error = "EIO"))
    /\ <>(IsFormCall /\ ((ended = 1 /\ pc = "returned") \/ error # Null))

\* C20: when every file can be opened and every readSync returns between
\* 1 and the requested number of bytes before the end of the file and 0 at
\* it, the streaming loop of a file field is eventually left and the call
\* eventually ends httpReq, whatever the fields of data are.
C20_SinkEventuallyFinalized ==
    /\ [](IsFormCall /\ pc = "read" => <>(pc = "close" \/ FileError))
    /\ <>(IsFormCall /\ ((ended = 1 /\ pc = "returned") \/ FileError))

====
